---- MODULE Spec2Model ----
(***************************************************************************)
(* Model of the delta codec of fswww-daemon/processor/comp_decomp.rs:      *)
(* diff_byte_header (encoder), diff_byte_header_copy_onto (decoder) and    *)
(* the facade mixed_comp / mixed_decomp around the lz4 block codec.        *)
(*                                                                         *)
(* Byte buffers are sequences of 0..255.  The source indexes from 0, TLA+  *)
(* sequences from 1: At(s, i) is the source's s[i].  An index outside a    *)
(* slice is a Rust panic; every operator that indexes carries a panic flag.*)
(***************************************************************************)
EXTENDS Integers, Sequences, FiniteSets, TLC

\* ------------------------------------------------------------------ bounds
MaxPairs == 9          \* pixel pairs per frame in Spec
MaxFacadePairs == 3    \* pixel pairs per frame in SpecFacade
MaxFrames == 3         \* frames of an animation in SpecChain
MaxGeomLen == 17       \* length of either buffer in SpecGeom
MaxDeltaLen == 8       \* length of a hand-made delta stream in SpecMalformed
MaxBufPairs == 2       \* pixel pairs of the target buffer in SpecMalformed

\* ------------------------------------------------------- program constants
PairBytes == 8         \* prev.chunks_exact(8): one pixel pair
GroupPairs == 8        \* if k == 8: pairs per header byte
MsbMask == 128         \* 0x80
PixelBytes == 4        \* idx * 4: bytes per pixel
SizePrefixLen == 4     \* lz4_flex size prefix: u32 little endian

\* ------------------------------------------------------------------ helpers
At(s, i) == s[i + 1]

RECURSIVE Pow2(_)
Pow2(n) == IF n = 0 THEN 1 ELSE 2 * Pow2(n - 1)

\* a >> n on unsigned integers
Shr(a, n) == a \div Pow2(n)

RECURSIVE BitOrN(_, _, _)
BitOrN(a, b, n) ==
    IF n = 0 THEN 0
    ELSE (IF a % 2 = 1 \/ b % 2 = 1 THEN 1 ELSE 0)
         + 2 * BitOrN(a \div 2, b \div 2, n - 1)

\* a | b on u8
BitOr(a, b) == BitOrN(a, b, 8)

\* ------------------------------------------------------------------ encoder

\* One evaluation of the condition of line 35, with || short-circuit:
\* chunk[j] != curr[i + j] || chunk[j + 4] != curr[i + j + 4]
\* (mutation: the second pixel's byte is not compared)
RGBCompareFirstPixelOnly(chunk, curr, i, j) ==
    IF i + j >= Len(curr) THEN "panic"
    ELSE IF At(chunk, j) # At(curr, i + j) THEN "diff"
    ELSE "same"
RGBCompare(chunk, curr, i, j) ==
    IF i + j >= Len(curr) THEN "panic"
    ELSE IF At(chunk, j) # At(curr, i + j) THEN "diff"
    ELSE IF i + j + 4 >= Len(curr) THEN "panic"
    ELSE IF At(chunk, j + 4) # At(curr, i + j + 4) THEN "diff"
    ELSE "same"

\* The loop "for j in 0..3" of lines 34-47, up to its break.
RECURSIVE ChunkScan(_, _, _, _)
ChunkScan(chunk, curr, i, j) ==
    IF j = 3 THEN "same"
    ELSE LET r == RGBCompare(chunk, curr, i, j)
         IN  IF r = "same" THEN ChunkScan(chunk, curr, i, j + 1) ELSE r

\* The six bytes pushed by lines 36-43.
PairPayload(curr, i) ==
    << At(curr, i), At(curr, i + 1), At(curr, i + 2),
       At(curr, i + 4), At(curr, i + 5), At(curr, i + 6) >>

\* 0x80 >> (k % 8), line 44
\* (mutation: least significant bit first)
HeaderBitLsbFirst(k) == Pow2(k % 8)
HeaderBit(k) == Shr(MsbMask, k % 8)

\* if k == 8, line 49
\* (mutation: a full group is never flushed inside the loop)
GroupFullNever(k) == FALSE
GroupFull(k) == k = GroupPairs

\* One iteration of the loop of lines 33-57 on chunk number c of prev.
EncodeChunk(st, prev, curr, c) ==
    LET chunk == SubSeq(prev, PairBytes * c + 1, PairBytes * c + PairBytes)
        r     == ChunkScan(chunk, curr, st.i, 0)
    IN  IF r = "panic" \/ (r = "diff" /\ st.i + 6 >= Len(curr))
        THEN [st EXCEPT !.panic = TRUE]
        ELSE LET to_add == IF r = "diff"
                           THEN st.to_add \o PairPayload(curr, st.i)
                           ELSE st.to_add
                 header == IF r = "diff"
                           THEN BitOr(st.header, HeaderBit(st.k))
                           ELSE st.header
                 k      == st.k + 1
             IN  IF GroupFull(k)
                 THEN [vec |-> st.vec \o <<header>> \o to_add,
                       to_add |-> <<>>, header |-> 0, i |-> st.i + PairBytes,
                       k |-> 0, panic |-> FALSE]
                 ELSE [vec |-> st.vec, to_add |-> to_add, header |-> header,
                       i |-> st.i + PairBytes, k |-> k, panic |-> FALSE]

RECURSIVE EncodeLoop(_, _, _, _)
EncodeLoop(st, prev, curr, c) ==
    IF st.panic \/ c >= Len(prev) \div PairBytes THEN st
    ELSE EncodeLoop(EncodeChunk(st, prev, curr, c), prev, curr, c + 1)

\* The flush after the loop, lines 58-60.
\* (mutation: no header is pushed when the last group was just flushed)
FinalFlushOnlyIfPending(st) ==
    IF st.k = 0 /\ st.vec # <<>> THEN st.vec
    ELSE st.vec \o <<st.header>> \o st.to_add
FinalFlush(st) == st.vec \o <<st.header>> \o st.to_add

\* fn diff_byte_header(prev, curr) -> Vec<u8>; panic = an index out of range
diff_byte_header(prev, curr) ==
    LET st == EncodeLoop([vec |-> <<>>, to_add |-> <<>>, header |-> 0,
                          i |-> 0, k |-> 0, panic |-> FALSE], prev, curr, 0)
    IN  IF st.panic THEN [vec |-> <<>>, panic |-> TRUE]
        ELSE [vec |-> FinalFlush(st), panic |-> FALSE]

\* ------------------------------------------------------------------ decoder

\* The loop of lines 73-78, j running 7 down to 0: the pixel index of every
\* set bit, most significant bit first; pix_idx += 2 for every bit.
\* (mutation: pix_idx advances for set bits only)
RECURSIVE ScanHeaderSkipsClearBits(_, _, _)
ScanHeaderSkipsClearBits(header, acc, j) ==
    LET next == IF Shr(header, j) % 2 = 1
                THEN [to_change |-> Append(acc.to_change, acc.pix_idx),
                      pix_idx |-> acc.pix_idx + 2]
                ELSE acc
    IN  IF j = 0 THEN next ELSE ScanHeaderSkipsClearBits(header, next, j - 1)

RECURSIVE ScanHeader(_, _, _)
ScanHeader(header, acc, j) ==
    LET next == [to_change |-> IF Shr(header, j) % 2 = 1
                               THEN Append(acc.to_change, acc.pix_idx)
                               ELSE acc.to_change,
                 pix_idx |-> acc.pix_idx + 2]
    IN  IF j = 0 THEN next ELSE ScanHeader(header, next, j - 1)

\* Lines 82-84 for one j: two reads of diff, two writes of buf, byte_idx += 1.
CopyByte(st, diff, idx, j) ==
    IF st.byte_idx >= Len(diff) \/ idx * PixelBytes + j >= Len(st.buf)
    THEN [st EXCEPT !.panic = TRUE]
    ELSE LET b1 == [st.buf EXCEPT ![idx * PixelBytes + j + 1] =
                                      At(diff, st.byte_idx)]
         IN  IF st.byte_idx + 3 >= Len(diff)
                \/ idx * PixelBytes + j + 4 >= Len(st.buf)
             THEN [st EXCEPT !.buf = b1, !.panic = TRUE]
             ELSE [st EXCEPT
                     !.buf = [b1 EXCEPT ![idx * PixelBytes + j + 4 + 1] =
                                            At(diff, st.byte_idx + 3)],
                     !.byte_idx = st.byte_idx + 1]

\* byte_idx += 3, line 86
\* (mutation: the cursor is not moved past the second pixel's bytes)
SkipSecondPixelNone(st) == st
SkipSecondPixel(st) == [st EXCEPT !.byte_idx = st.byte_idx + 3]

\* The body of "for idx in &to_change", lines 81-86.
RECURSIVE CopyPair(_, _, _, _)
CopyPair(st, diff, idx, j) ==
    IF st.panic THEN st
    ELSE IF j = 3 THEN SkipSecondPixel(st)
    ELSE CopyPair(CopyByte(st, diff, idx, j), diff, idx, j + 1)

RECURSIVE CopyPairs(_, _, _)
CopyPairs(st, diff, to_change) ==
    IF st.panic \/ to_change = <<>> THEN st
    ELSE CopyPairs(CopyPair(st, diff, Head(to_change), 0), diff,
                   Tail(to_change))

\* One iteration of "while byte_idx < diff.len()", lines 72-88.
DecodeGroup(st, diff) ==
    LET header == At(diff, st.byte_idx)
        scan   == ScanHeader(header,
                             [to_change |-> <<>>, pix_idx |-> st.pix_idx], 7)
    IN  CopyPairs([st EXCEPT !.pix_idx = scan.pix_idx,
                             !.byte_idx = st.byte_idx + 1],
                  diff, scan.to_change)

RECURSIVE DecodeLoop(_, _)
DecodeLoop(st, diff) ==
    IF st.panic \/ st.byte_idx >= Len(diff) THEN st
    ELSE DecodeLoop(DecodeGroup(st, diff), diff)

DecodeStart(buffer) ==
    [buf |-> buffer, byte_idx |-> 0, pix_idx |-> 0, panic |-> FALSE]

\* fn diff_byte_header_copy_onto(buf, diff)
diff_byte_header_copy_onto(buffer, diff) == DecodeLoop(DecodeStart(buffer), diff)

\* ------------------------------------------------------------ entropy stage
\* lz4_flex is an external crate.  It is modelled by the LZ4 block format
\* with a 4-byte little-endian size prefix: the compressor emits one
\* literals-only sequence, the decompressor parses any block (literals and
\* matches) and fails on truncated input, a bad offset or a size that
\* differs from the declared one.

\* A length continued in 255-saturated extension bytes.
RECURSIVE LenExt(_)
LenExt(n) == IF n >= 255 THEN <<255>> \o LenExt(n - 255) ELSE <<n>>

SizePrefix(n) ==
    [b \in 1..SizePrefixLen |-> (n \div Pow2(8 * (b - 1))) % 256]

RECURSIVE ReadSize(_, _)
ReadSize(input, b) ==
    IF b = 0 THEN 0 ELSE At(input, b - 1) * Pow2(8 * (b - 1)) + ReadSize(input, b - 1)

compress_block(bytes) ==
    IF Len(bytes) < 15 THEN <<16 * Len(bytes)>> \o bytes
    ELSE <<16 * 15>> \o LenExt(Len(bytes) - 15) \o bytes

compress_prepend_size(bytes) == SizePrefix(Len(bytes)) \o compress_block(bytes)

\* Reads the extension bytes of a length at ip: [n, ip, err].
RECURSIVE ReadLenExt(_, _, _)
ReadLenExt(input, ip, n) ==
    IF ip >= Len(input) THEN [n |-> n, ip |-> ip, err |-> TRUE]
    ELSE IF At(input, ip) = 255 THEN ReadLenExt(input, ip + 1, n + 255)
    ELSE [n |-> n + At(input, ip), ip |-> ip + 1, err |-> FALSE]

ReadLen(input, ip, nibble) ==
    IF nibble = 15 THEN ReadLenExt(input, ip, nibble)
    ELSE [n |-> nibble, ip |-> ip, err |-> FALSE]

\* A match copy, byte by byte (source and destination may overlap).
RECURSIVE CopyMatch(_, _, _)
CopyMatch(out, offset, n) ==
    IF n = 0 THEN out
    ELSE CopyMatch(Append(out, out[Len(out) - offset + 1]), offset, n - 1)

Failed == [out |-> <<>>, err |-> TRUE]

\* The sequences of a block from ip on, into at most size bytes.
RECURSIVE DecodeSequences(_, _, _, _)
DecodeSequences(input, ip, out, size) ==
    IF ip >= Len(input) THEN Failed
    ELSE
    LET token == At(input, ip)
        lit   == ReadLen(input, ip + 1, token \div 16)
    IN  IF lit.err \/ lit.ip + lit.n > Len(input) \/ Len(out) + lit.n > size
        THEN Failed
        ELSE
        LET out1 == out \o SubSeq(input, lit.ip + 1, lit.ip + lit.n)
            ip1  == lit.ip + lit.n
        IN  IF ip1 = Len(input) THEN [out |-> out1, err |-> FALSE]
            ELSE IF ip1 + 2 > Len(input) THEN Failed
            ELSE
            LET offset == At(input, ip1) + 256 * At(input, ip1 + 1)
                mat    == ReadLen(input, ip1 + 2, token % 16)
            IN  IF mat.err \/ offset = 0 \/ offset > Len(out1)
                   \/ Len(out1) + mat.n + 4 > size
                THEN Failed
                ELSE DecodeSequences(input, mat.ip,
                                     CopyMatch(out1, offset, mat.n + 4), size)

decompress_size_prepended(input) ==
    IF Len(input) < SizePrefixLen THEN Failed
    ELSE LET size == ReadSize(input, SizePrefixLen)
             r    == DecodeSequences(input, SizePrefixLen, <<>>, size)
         IN  IF r.err \/ Len(r.out) # size THEN Failed ELSE r

\* ------------------------------------------------------------------- facade

\* pub fn mixed_comp(prev, curr) -> Vec<u8>
mixed_comp(prev, curr) ==
    LET bit_pack == diff_byte_header(prev, curr)
    IN  IF bit_pack.panic THEN [vec |-> <<>>, panic |-> TRUE]
        ELSE [vec |-> compress_prepend_size(bit_pack.vec), panic |-> FALSE]

\* pub fn mixed_decomp(buf, diff); .unwrap() of a failed decompression panics
\* (mutation: the compressed bytes are applied without decompression)
mixed_decomp_raw(buffer, diff) == diff_byte_header_copy_onto(buffer, diff)
mixed_decomp(buffer, diff) ==
    LET d == decompress_size_prepended(diff)
    IN  IF d.err THEN [DecodeStart(buffer) EXCEPT !.panic = TRUE]
        ELSE diff_byte_header_copy_onto(buffer, d.out)

\* ------------------------------------------------------------------ state
VARIABLES
    frame1,      \* the previous frame handed to the encoder
    frame2,      \* the current frame handed to the encoder
    delta,       \* the delta stream (diff_byte_header's result)
    packed,      \* the compressed stream (mixed_comp's result)
    buf,         \* the buffer decoded onto
    byte_idx,    \* the decoder's read cursor
    pix_idx,     \* the decoder's pixel index
    outcome,     \* "ok", or "panic" once a call has aborted
    pc,          \* the caller's position
    original,    \* the frames of an animation
    compressed,  \* their deltas, compressed[i] turning frame i-1 into frame i
    step         \* how many deltas of the animation are applied

vars == << frame1, frame2, delta, packed, buf, byte_idx, pix_idx, outcome, pc,
           original, compressed, step >>

chainVars == << original, compressed, step >>

\* ------------------------------------------------------------------ inputs
\* Offsets 0..7 of a pixel pair: R1 G1 B1 A1 R2 G2 B2 A2.
RGBOffsets == {0, 1, 2, 4, 5, 6}

\* Offsets of the two alpha bytes of a pair.
AlphaOffsets == {3, 7}

\* The colour offset at which a touched pair of frame2 differs from frame1.
ChangeKinds == { {0}, {1}, {2}, {4}, {5}, {6} }

\* The alpha offsets at which every pair of frame2 differs from frame1.
AlphaNoise == { {}, AlphaOffsets }

BaseByte(i) == (3 * i + 1) % 256

BaseBytes(len) == [x \in 1..len |-> BaseByte(x - 1)]

BaseFrame(n) == BaseBytes(PairBytes * n)

\* frame with the bytes at the offsets of kind changed in the pairs of
\* touched, and the bytes at the offsets of noise changed in every pair
Touch(frame, touched, kind, noise) ==
    [x \in 1..Len(frame) |->
        IF \/ ((x - 1) % PairBytes) \in noise
           \/ /\ ((x - 1) \div PairBytes) \in touched
              /\ ((x - 1) % PairBytes) \in kind
        THEN 255 - frame[x] ELSE frame[x]]

\* Pixel pairs an animation's frames are made of: they differ in colour
\* bytes, in alpha bytes, or in both.
PairPalette ==
    { <<1, 2, 3, 4, 5, 6, 7, 8>>,
      <<1, 2, 3, 40, 8, 7, 6, 5>>,
      <<1, 2, 9, 4, 5, 6, 7, 80>> }

\* Frames of two pixel pairs.
PaletteFrames == { a \o b : a \in PairPalette, b \in PairPalette }

Idle ==
    /\ delta = <<>> /\ packed = <<>> /\ buf = <<>>
    /\ byte_idx = 0 /\ pix_idx = 0 /\ outcome = "ok"

NoChain == original = <<>> /\ compressed = <<>> /\ step = 0

\* ----------------------------------------------------------------- actions

\* diff_byte_header(&frame1, &frame2); let mut buf = frame1.clone()
EncodeDelta ==
    /\ pc = "start"
    /\ LET r == diff_byte_header(frame1, frame2)
       IN  /\ delta' = r.vec
           /\ outcome' = IF r.panic THEN "panic" ELSE "ok"
           /\ pc' = IF r.panic THEN "done" ELSE "decoding"
    /\ buf' = frame1
    /\ UNCHANGED << frame1, frame2, packed, byte_idx, pix_idx, chainVars >>

\* one iteration of the loop of diff_byte_header_copy_onto(&mut buf, &delta)
DecodeNext ==
    /\ pc = "decoding"
    /\ byte_idx < Len(delta)
    /\ LET st == DecodeGroup([buf |-> buf, byte_idx |-> byte_idx,
                              pix_idx |-> pix_idx, panic |-> FALSE], delta)
       IN  /\ buf' = st.buf
           /\ byte_idx' = st.byte_idx
           /\ pix_idx' = st.pix_idx
           /\ outcome' = IF st.panic THEN "panic" ELSE "ok"
           /\ pc' = IF st.panic THEN "done" ELSE "decoding"
    /\ UNCHANGED << frame1, frame2, delta, packed, chainVars >>

\* the loop's exit
DecodeEnd ==
    /\ pc = "decoding"
    /\ byte_idx >= Len(delta)
    /\ pc' = "done"
    /\ UNCHANGED << frame1, frame2, delta, packed, buf, byte_idx, pix_idx,
                    outcome, chainVars >>

\* mixed_comp(&frame1, &frame2); let mut buf = frame1.clone()
MixedComp ==
    /\ pc = "start"
    /\ LET r == mixed_comp(frame1, frame2)
       IN  /\ packed' = r.vec
           /\ outcome' = IF r.panic THEN "panic" ELSE "ok"
           /\ pc' = IF r.panic THEN "unpacked" ELSE "packed"
    /\ buf' = frame1
    /\ UNCHANGED << frame1, frame2, delta, byte_idx, pix_idx, chainVars >>

\* mixed_decomp(&mut buf, &packed)
MixedDecomp ==
    /\ pc = "packed"
    /\ LET st == mixed_decomp(buf, packed)
       IN  /\ buf' = st.buf
           /\ byte_idx' = st.byte_idx
           /\ pix_idx' = st.pix_idx
           /\ outcome' = IF st.panic THEN "panic" ELSE "ok"
    /\ pc' = "unpacked"
    /\ UNCHANGED << frame1, frame2, delta, packed, chainVars >>

\* ------------------------------------------------- Spec: a valid frame pair
Init ==
    /\ \E n \in 0..MaxPairs, kind \in ChangeKinds, noise \in AlphaNoise :
         \E touched \in SUBSET (0..(n - 1)) :
            /\ frame1 = BaseFrame(n)
            /\ frame2 = Touch(BaseFrame(n), touched, kind, noise)
    /\ Idle /\ NoChain
    /\ pc = "start"

Next == EncodeDelta \/ DecodeNext \/ DecodeEnd

Spec == Init /\ [][Next]_vars

\* ------------------------------------ SpecFacade: mixed_comp / mixed_decomp
InitFacade ==
    /\ \E n \in 0..MaxFacadePairs, kind \in ChangeKinds, noise \in AlphaNoise :
         \E touched \in SUBSET (0..(n - 1)) :
            /\ frame1 = BaseFrame(n)
            /\ frame2 = Touch(BaseFrame(n), touched, kind, noise)
    /\ Idle /\ NoChain
    /\ pc = "start"

NextFacade == MixedComp \/ MixedDecomp

SpecFacade == InitFacade /\ [][NextFacade]_vars

\* ------------------------------- SpecGeom: buffers of any pair of lengths
InitGeom ==
    /\ \E lp \in 0..MaxGeomLen, lc \in 0..MaxGeomLen, kind \in {{}, {2}} :
            /\ frame1 = BaseBytes(lp)
            /\ frame2 = Touch(BaseBytes(lc), 0..MaxGeomLen, kind, {})
    /\ Idle /\ NoChain
    /\ pc = "start"

NextGeom == EncodeDelta \/ DecodeNext \/ DecodeEnd \/ MixedComp \/ MixedDecomp

SpecGeom == InitGeom /\ [][NextGeom]_vars

\* --------------------- SpecMalformed: the decoder on any delta and buffer
HeaderSamples == {0, 1, 128, 192, 255}

FillSamples == {0, 7, 128}

InitMalformed ==
    /\ \E len \in 0..MaxDeltaLen, header \in HeaderSamples, fill \in FillSamples :
         delta = [x \in 1..len |-> IF x = 1 THEN header ELSE fill]
    /\ \E n \in 0..MaxBufPairs :
         /\ buf = BaseFrame(n)
         /\ frame1 = BaseFrame(n)
         /\ frame2 = BaseFrame(n)
    /\ packed = <<>> /\ byte_idx = 0 /\ pix_idx = 0 /\ outcome = "ok"
    /\ NoChain
    /\ pc = "decoding"

NextMalformed == DecodeNext \/ DecodeEnd

SpecMalformed == InitMalformed /\ [][NextMalformed]_vars

\* ------------------- SpecCorrupt: mixed_decomp on a damaged compressed stream
\* byte values a damaged byte takes (the size prefix stays below 2^31)
CorruptSamples == {0, 16, 127}

\* the stream loses its last bytes on the way
Truncate ==
    /\ pc = "received"
    /\ \E len \in 0..(Len(packed) - 1) : packed' = SubSeq(packed, 1, len)
    /\ pc' = "packed"
    /\ UNCHANGED << frame1, frame2, delta, buf, byte_idx, pix_idx, outcome,
                    chainVars >>

\* one byte of the stream changes on the way
Corrupt ==
    /\ pc = "received"
    /\ \E x \in 1..Len(packed), v \in CorruptSamples :
         /\ packed[x] # v
         /\ packed' = [packed EXCEPT ![x] = v]
    /\ pc' = "packed"
    /\ UNCHANGED << frame1, frame2, delta, buf, byte_idx, pix_idx, outcome,
                    chainVars >>

InitCorrupt ==
    /\ frame1 \in PaletteFrames
    /\ frame2 \in PaletteFrames
    /\ packed = mixed_comp(frame1, frame2).vec
    /\ buf = frame1
    /\ delta = <<>> /\ byte_idx = 0 /\ pix_idx = 0 /\ outcome = "ok"
    /\ NoChain
    /\ pc = "received"

NextCorrupt == Truncate \/ Corrupt \/ MixedDecomp

SpecCorrupt == InitCorrupt /\ [][NextCorrupt]_vars

\* ----------------------------- SpecChain: the deltas of an animation loop
\* the predecessor of frame i (from 1), the last frame wrapping to the first
Predecessor(frames, i) == IF i = 1 THEN frames[Len(frames)] ELSE frames[i - 1]

\* compressed.push(diff_byte_header(..)) for every frame, lines 179-185
ChainEncode ==
    /\ pc = "start"
    /\ compressed' = [i \in 1..Len(original) |->
                        diff_byte_header(Predecessor(original, i),
                                         original[i]).vec]
    /\ buf' = original[Len(original)]
    /\ pc' = "applying"
    /\ UNCHANGED << frame1, frame2, delta, packed, byte_idx, pix_idx, outcome,
                    original, step >>

\* diff_byte_header_copy_onto(&mut buf, &compressed[i]), line 187
ChainApply ==
    /\ pc = "applying"
    /\ outcome = "ok"
    /\ step < Len(original)
    /\ LET st == diff_byte_header_copy_onto(buf, compressed[step + 1])
       IN  /\ buf' = st.buf
           /\ byte_idx' = st.byte_idx
           /\ pix_idx' = st.pix_idx
           /\ outcome' = IF st.panic THEN "panic" ELSE "ok"
    /\ step' = step + 1
    /\ UNCHANGED << frame1, frame2, delta, packed, pc, original, compressed >>

InitChain ==
    /\ \E n \in 1..MaxFrames : original \in [1..n -> PaletteFrames]
    /\ compressed = <<>> /\ step = 0
    /\ frame1 = <<>> /\ frame2 = <<>>
    /\ Idle
    /\ pc = "start"

NextChain == ChainEncode \/ ChainApply

SpecChain == InitChain /\ [][NextChain]_vars

\* --------------------------------------------- the wire format, as reference
PairCount(frame) == Len(frame) \div PairBytes

CeilDiv(a, b) == (a + b - 1) \div b

\* pair p differs between frames P and C in a colour byte of either pixel
DirtyPair(P, C, p) ==
    \E o \in RGBOffsets : At(P, PairBytes * p + o) # At(C, PairBytes * p + o)

\* the pairs a set bit of the header of group g may name
GroupDirty(P, C, g) ==
    { i \in 0..7 : /\ GroupPairs * g + i < PairCount(P)
                   /\ DirtyPair(P, C, GroupPairs * g + i) }

RECURSIVE SumBits(_)
SumBits(bits) ==
    IF bits = {} THEN 0
    ELSE LET i == CHOOSE x \in bits : TRUE
         IN  Pow2(7 - i) + SumBits(bits \ {i})

RECURSIVE WirePayload(_, _, _)
WirePayload(C, g, bits) ==
    IF bits = {} THEN <<>>
    ELSE LET i == CHOOSE x \in bits : \A y \in bits : x <= y
             b == PairBytes * (GroupPairs * g + i)
         IN  << At(C, b), At(C, b + 1), At(C, b + 2),
                At(C, b + 4), At(C, b + 5), At(C, b + 6) >>
             \o WirePayload(C, g, bits \ {i})

WireGroup(P, C, g) ==
    <<SumBits(GroupDirty(P, C, g))>> \o WirePayload(C, g, GroupDirty(P, C, g))

\* groups g, g+1, .., n-1
RECURSIVE WireStream(_, _, _, _)
WireStream(P, C, g, n) ==
    IF g >= n THEN <<>>
    ELSE WireGroup(P, C, g) \o WireStream(P, C, g + 1, n)

\* where group g starts in the stream
GroupStart(P, C, g) ==
    g + 6 * Cardinality({ p \in 0..(PairCount(P) - 1) :
                            p < GroupPairs * g /\ DirtyPair(P, C, p) })

RECURSIVE PopCount(_)
PopCount(h) == IF h = 0 THEN 0 ELSE (h % 2) + PopCount(h \div 2)

\* the number of header bytes of a stream, -1 when a payload is cut short
RECURSIVE HeaderCount(_, _)
HeaderCount(stream, pos) ==
    IF pos = Len(stream) THEN 0
    ELSE IF pos > Len(stream) THEN -1 - Len(stream)
    ELSE 1 + HeaderCount(stream, pos + 1 + 6 * PopCount(At(stream, pos)))

ColourBytesOf(buffer, frame) ==
    /\ Len(buffer) = Len(frame)
    /\ \A x \in 1..Len(frame) :
         ((x - 1) % PixelBytes) # 3 => buffer[x] = frame[x]

AlphaBytesOf(buffer, frame) ==
    /\ Len(buffer) = Len(frame)
    /\ \A x \in 1..Len(frame) :
         ((x - 1) % PixelBytes) = 3 => buffer[x] = frame[x]

AlphaDiffers(P, C) ==
    \E x \in 1..Len(P) : ((x - 1) % PixelBytes) = 3 /\ P[x] # C[x]

ColourDiffers(P, C) ==
    \E x \in 1..Len(P) : ((x - 1) % PixelBytes) # 3 /\ P[x] # C[x]

Encoded == pc \in {"decoding", "done"}

\* ------------------------------------------------------------------ claims

\* C1: round trip.  Applying diff_byte_header(P, C) with
\* diff_byte_header_copy_onto to a copy of P ends without a panic and leaves
\* every R, G, B byte equal to C's and every alpha byte equal to P's.
C1_RoundTrip ==
    pc = "done" =>
        /\ outcome = "ok"
        /\ ColourBytesOf(buf, frame2)
        /\ AlphaBytesOf(buf, frame1)

\* C1 witness: a decoded pair of frames that differ in colour and in alpha.
C1_Witness ==
    /\ pc = "done"
    /\ PairCount(frame1) >= GroupPairs
    /\ ColourDiffers(frame1, frame2)
    /\ AlphaDiffers(frame1, frame2)

\* C2: round trip through the facade.  mixed_decomp(copy of P,
\* mixed_comp(P, C)) ends without a panic and leaves every R, G, B byte equal
\* to C's; the compressed stream decompresses to exactly
\* diff_byte_header(P, C).
C2_FacadeRoundTrip ==
    /\ pc \in {"packed", "unpacked"} =>
         /\ outcome = "ok"
         /\ decompress_size_prepended(packed)
              = [out |-> diff_byte_header(frame1, frame2).vec, err |-> FALSE]
    /\ pc = "unpacked" => ColourBytesOf(buf, frame2)

\* C2 witness: a frame pair with colour changes through mixed_decomp, its
\* delta stream long enough for an extended literal length.
C2_Witness ==
    /\ pc = "unpacked"
    /\ ColourDiffers(frame1, frame2)
    /\ Len(diff_byte_header(frame1, frame2).vec) >= 15

C5_WireFormat ==
    /\ Encoded =>
         \E n \in 0..Len(delta) :
            /\ GroupPairs * n >= PairCount(frame1)
            /\ delta = WireStream(frame1, frame2, 0, n)
    /\ diff_byte_header(<<1, 2, 3, 4, 5, 6, 7, 8>>,
                        <<1, 2, 3, 4, 8, 7, 6, 5>>).vec
         = <<128, 1, 2, 3, 8, 7, 6>>

\* C5 witness: nine pairs, of which pairs 1, 3 and 8 changed colour and the
\* others changed alpha only.
C5_Witness ==
    /\ Encoded
    /\ PairCount(frame1) = GroupPairs + 1
    /\ AlphaDiffers(frame1, frame2)
    /\ { p \in 0..GroupPairs : DirtyPair(frame1, frame2, p) } = {1, 3, GroupPairs}

\* C10: decoder framing on encoder output.  At every turn of the decoder's
\* loop no index has been out of range, the pixel index has advanced by 16
\* per header read, the read cursor stands where the group of that number
\* starts in the encoder's output (so the byte read next is that group's
\* header), and the loop ends with the cursor equal to the stream's length.
C10_Framing ==
    Encoded =>
        /\ outcome = "ok"
        /\ Len(buf) = Len(frame1)
        /\ pix_idx % (2 * GroupPairs) = 0
        /\ byte_idx = GroupStart(frame1, frame2, pix_idx \div (2 * GroupPairs))
        /\ byte_idx <= Len(delta)
        /\ byte_idx < Len(delta) =>
             At(delta, byte_idx)
               = SumBits(GroupDirty(frame1, frame2, pix_idx \div (2 * GroupPairs)))
        /\ pc = "done" => byte_idx = Len(delta)

\* C10 witness: the decoder has read the zero header that follows a full
\* group with colour changes, which covers pairs beyond the buffer.
C10_Witness ==
    /\ pc = "done"
    /\ PairCount(frame1) = GroupPairs
    /\ pix_idx = 4 * GroupPairs
    /\ DirtyPair(frame1, frame2, 0)
    /\ DirtyPair(frame1, frame2, GroupPairs - 1)

\* C9: chained decoding over an animation loop.  With the buffer started as
\* a copy of the last frame, after the i-th delta is applied the buffer's
\* R, G, B bytes are those of frame i and its alpha bytes are still those of
\* the last frame; no delta makes the decoder panic.
C9_Chain ==
    pc = "applying" =>
        /\ outcome = "ok"
        /\ AlphaBytesOf(buf, original[Len(original)])
        /\ step >= 1 => ColourBytesOf(buf, original[step])

\* C9 witness: every delta of a loop of three frames is applied, the frames
\* differing pairwise in colour and the first two from the last in alpha.
C9_Witness ==
    /\ pc = "applying"
    /\ Len(original) = 3
    /\ step = Len(original)
    /\ ColourDiffers(original[1], original[2])
    /\ ColourDiffers(original[2], original[3])
    /\ ColourDiffers(original[3], original[1])
    /\ AlphaDiffers(original[1], original[3])
    /\ AlphaDiffers(original[2], original[3])

\* C6 as stated: when the two buffers handed to the encoder differ in length,
\* or their length is no multiple of 8, the encoder returns an error.
C6_GeometryRejected ==
    (/\ pc # "start"
     /\ \/ Len(frame1) # Len(frame2)
        \/ Len(frame1) % PairBytes # 0)
        => outcome = "error"

\* C7 as stated: when the size-prefixed decompression of the compressed
\* stream fails, mixed_decomp returns an error and does not panic.
C7_DecompressFailureRecoverable ==
    (pc = "unpacked" /\ decompress_size_prepended(packed).err)
        => outcome = "error"

\* The delta stream read from pos on, pair being the first pair of the group
\* at pos, asks for a payload byte past the stream or names a pair past a
\* buffer of buflen bytes.
RECURSIVE Malformed(_, _, _, _)
Malformed(stream, buflen, pos, pair) ==
    IF pos >= Len(stream) THEN FALSE
    ELSE LET h == At(stream, pos)
             after == pos + 1 + 6 * PopCount(h)
         IN  \/ after > Len(stream)
             \/ \E i \in 0..7 : /\ Shr(h, 7 - i) % 2 = 1
                                /\ PairBytes * (pair + i + 1) > buflen
             \/ Malformed(stream, buflen, after, pair + GroupPairs)

\* C8 as stated: when the delta stream is malformed for the buffer, the
\* decoder ends in a recoverable decode error and does not panic.
C8_MalformedRecoverable ==
    (pc = "done" /\ Malformed(delta, Len(frame1), 0, 0))
        => outcome = "error"

====
